---- MODULE Spec2Model ----
(***************************************************************************)
(* Model of pkg/driver.go: a Driver (the "Connection Guardian") that wraps *)
(* one neo4j driver handle, guards it with the package-level accessLock    *)
(* (sync.RWMutex) and recoveryLock (sync.Mutex), and rebuilds the handle   *)
(* when a query reports a closed handle or a connectivity error.           *)
(*                                                                         *)
(* Each goroutine is a process with a program counter pc[g]; every action  *)
(* below is one step of ExecuteQuery, nonblockExecuteQuery, reconnect,     *)
(* nonblockClose or Close.  The neo4j library is the environment: a handle *)
(* is "open", "broken" (open, but the database cannot be reached through   *)
(* it) or "closed".                                                        *)
(***************************************************************************)
EXTENDS Naturals, Sequences, FiniteSets

VARIABLES
    driver,        \* d.driver: the handle the Driver references (a handle id)
    handles,       \* handles[h]: "open" | "broken" | "closed", one per handle ever built
    builtFor,      \* history: builtFor[h] = the handle whose failure made reconnect build h (0: NewDriver by the caller)
    everBroken,    \* history: handles whose connectivity the environment broke
    writer,        \* accessLock: the goroutine that called Lock (pending or holding), 0 if none
    readers,       \* accessLock: the goroutines holding RLock
    recoveryLock,  \* recoveryLock: its holder, 0 if free
    pc,            \* pc[g]: where goroutine g is
    call,          \* call[g]: the call g is making (op, query, hook)
    calls,         \* calls[g]: how many calls g has returned from
    cur,           \* cur[g]: the value of d.driver that g loaded in NewSession
    sess,          \* sess[g]: the sessions g has open, one per nonblockExecuteQuery frame
    newDrv,        \* newDrv[g]: the handle g built in reconnect (0: none)
    err,           \* err[g]: the error of the current frame / the call's return value
    log,           \* history: what g did during its current call
    freed,         \* history: handles another goroutine closed while g held RLock
    faults         \* how many more faults the environment may inject

vars == <<driver, handles, builtFor, everBroken, writer, readers, recoveryLock,
          pc, call, calls, cur, sess, newDrv, err, log, freed, faults>>

----------------------------------------------------------------------------
(* Bounds *)

NumGoroutines == 2
MaxCalls == 2
MaxFaults == 1

Goroutines == 1..NumGoroutines

----------------------------------------------------------------------------
(* Error values: an error is its message, a sequence of text pieces;       *)
(* <<>> is nil.                                                            *)

NoError == <<>>
ClosedDriverMsg == <<"Trying to create session on closed driver">>
ConnectivityMsg == <<"ConnectivityError", ": connection refused">>
PoolClosedMsg == <<"Pool closed">>
QueryMsg == <<"Neo4jError", ": Neo.ClientError.Statement.SyntaxError">>
NoRecordsMsg == <<"no records">>
PanicValue == "boom"
\* driver.go:28 without the %v of the recovered value
PanicMsgNoCause(r) == <<"[neo4j onResults] recovered from panic: ", "\n\n", "stack">>

\* driver.go:28: fmt.Errorf("[neo4j onResults] recovered from panic: %v\n\n%s", r, stack)
PanicMsg(r) == <<"[neo4j onResults] recovered from panic: ", r, "\n\n", "stack">>
ConstructMsg == <<"UsageError", ": invalid connection string">>

\* strings.HasPrefix on messages
HasPrefix(m, p) == Len(m) >= Len(p) /\ SubSeq(m, 1, Len(p)) = p

\* driver.go:72 without its first disjunct
IsConnectivityClassPrefixOnly(m) == HasPrefix(m, <<"ConnectivityError">>)

\* driver.go:72 taking every error for a connectivity problem
IsConnectivityClassAnyError(m) == m # NoError

\* driver.go:72: the errors that trigger reconnect and retry
IsConnectivityClass(m) ==
    m = ClosedDriverMsg \/ HasPrefix(m, <<"ConnectivityError">>)

----------------------------------------------------------------------------
(* The calls a goroutine can make *)

CloseCall == [op |-> "Close", query |-> "none", hook |-> "none"]
Query(q, k) == [op |-> "ExecuteQuery", query |-> q, hook |-> k]
\* the test's executeSimpleQuery: a valid query and a hook that accepts its result
SimpleQuery == Query("good", "ok")
\* Close, a valid query with each kind of hook, and a malformed query
Calls == {CloseCall, Query("bad", "ok")} \cup {Query("good", k) : k \in {"ok", "err", "panic"}}

Event(e, h, m, f) == [ev |-> e, h |-> h, msg |-> m, freed |-> f]

----------------------------------------------------------------------------
(* The neo4j library, as the Driver uses it *)

\* reconnect without its double check: the current handle never passes
VerifyConnectivityNever(h) == FALSE

\* handle.VerifyConnectivity (driver.go:107): nil only on a live, reachable handle
VerifyConnectivity(h) == handles[h] = "open"

\* handle.NewSession (driver.go:92): never fails; on a closed handle it returns
\* a session whose Run reports "Trying to create session on closed driver"
SessionOn(h) == [h |-> h, dead |-> handles[h] = "closed"]

\* session.Run (driver.go:70): the errors it can return for session s and query q
RunResults(s, q) ==
    IF s.dead THEN {ClosedDriverMsg}
    ELSE IF handles[s.h] = "closed" THEN {ConnectivityMsg, PoolClosedMsg}
    ELSE IF handles[s.h] = "broken" THEN {ConnectivityMsg}
    ELSE IF q = "bad" THEN {QueryMsg}
    ELSE {NoError}

\* onResults(result) (driver.go:31): what the caller's hook does
HookReturns(k) == IF k = "err" THEN NoRecordsMsg ELSE NoError
HookPanics(k) == k = "panic"

\* executeHook (driver.go:25-36): a panic is recovered into an error
executeHook(k) == IF HookPanics(k) THEN PanicMsg(PanicValue) ELSE HookReturns(k)

\* driver.go:125 missing: the handle is not closed
nonblockCloseNothing(d) == handles

\* nonblockClose (driver.go:121-126) on the handle table
nonblockClose(d) == IF d = 0 THEN handles ELSE [handles EXCEPT ![d] = "closed"]

\* history: closing d for real while o holds RLock frees d under o
Freeing(g, d) ==
    [o \in Goroutines |->
        IF o # g /\ o \in readers /\ d # 0 /\ handles[d] # "closed"
        THEN freed[o] \cup {d} ELSE freed[o]]

----------------------------------------------------------------------------
(* sync.RWMutex and sync.Mutex *)

\* RWMutex.RLock blocks once a writer has announced itself (readerCount < 0)
WriterPendingNever == FALSE

WriterPending == writer # 0

\* RWMutex.Lock waits for the active readers to depart
ReadersDrainedAlways == TRUE

ReadersDrained == readers = {}

\* driver.go:77 re-entering through ExecuteQuery instead of nonblockExecuteQuery
RetryEntryLocking == "rlock"

\* driver.go:77 missing: after reconnect the frame falls through to the hook
RetryEntrySkipped == "hook"

\* driver.go:77: the retry re-enters nonblockExecuteQuery, RLock still held
RetryEntry == "loadDriver"

Top(g) == sess[g][Len(sess[g])]
Logged(g, e) == [log EXCEPT ![g] = Append(@, e)]
Goto(g, l) == [pc EXCEPT ![g] = l]

----------------------------------------------------------------------------
(* Initial states *)

\* NewDriver (driver.go:38-46) succeeded; nobody has called anything yet
Init ==
    /\ driver = 1
    /\ handles = <<"open">>
    /\ builtFor = <<0>>
    /\ everBroken = {}
    /\ writer = 0
    /\ readers = {}
    /\ recoveryLock = 0
    /\ pc = [g \in Goroutines |-> "idle"]
    /\ call = [g \in Goroutines |-> CloseCall]
    /\ calls = [g \in Goroutines |-> 0]
    /\ cur = [g \in Goroutines |-> 0]
    /\ sess = [g \in Goroutines |-> <<>>]
    /\ newDrv = [g \in Goroutines |-> 0]
    /\ err = [g \in Goroutines |-> NoError]
    /\ log = [g \in Goroutines |-> <<>>]
    /\ freed = [g \in Goroutines |-> {}]
    /\ faults = MaxFaults

----------------------------------------------------------------------------
(* Starting a call *)

Begin(g, c) ==
    /\ pc[g] = "idle"
    /\ call' = [call EXCEPT ![g] = c]
    /\ pc' = Goto(g, IF c.op = "Close" THEN "lock" ELSE "rlock")
    /\ UNCHANGED <<driver, handles, builtFor, everBroken, writer, readers,
                   recoveryLock, calls, cur, sess, newDrv, err, log, freed, faults>>

\* any caller: any call with any query and hook
StartCall(g) ==
    /\ calls[g] < MaxCalls
    /\ \E c \in Calls : Begin(g, c)

----------------------------------------------------------------------------
(* ExecuteQuery (driver.go:52-57) *)

\* accessLock.RLock()
RLock(g) ==
    /\ pc[g] = "rlock"
    /\ IF WriterPending
       THEN /\ pc' = Goto(g, "rwait")
            /\ UNCHANGED readers
       ELSE /\ pc' = Goto(g, "loadDriver")
            /\ readers' = readers \cup {g}
    /\ UNCHANGED <<driver, handles, builtFor, everBroken, writer, recoveryLock,
                   call, calls, cur, sess, newDrv, err, log, freed, faults>>

\* NewSession (driver.go:92): read d.driver ...
LoadDriver(g) ==
    /\ pc[g] = "loadDriver"
    /\ cur' = [cur EXCEPT ![g] = driver]
    /\ pc' = Goto(g, "newSession")
    /\ UNCHANGED <<driver, handles, builtFor, everBroken, writer, readers,
                   recoveryLock, call, calls, sess, newDrv, err, log, freed, faults>>

\* ... and call NewSession on it; the session's close is deferred (driver.go:68)
NewSession(g) ==
    /\ pc[g] = "newSession"
    /\ sess' = [sess EXCEPT ![g] = Append(@, SessionOn(cur[g]))]
    /\ log' = Logged(g, Event("session", cur[g], NoError, cur[g] \in freed[g]))
    /\ pc' = Goto(g, "run")
    /\ UNCHANGED <<driver, handles, builtFor, everBroken, writer, readers,
                   recoveryLock, call, calls, cur, newDrv, err, freed, faults>>

\* driver.go:72-78 with a cap of one retry: only the outermost frame reconnects
RunRetryOnce(g) ==
    /\ pc[g] = "run"
    /\ \E m \in RunResults(Top(g), call[g].query) :
         /\ log' = Logged(g, Event("run", Top(g).h, m, Top(g).h \in freed[g]))
         /\ err' = [err EXCEPT ![g] = m]
         /\ pc' = Goto(g, IF m = NoError THEN "hook"
                          ELSE IF IsConnectivityClass(m) /\ Len(sess[g]) = 1 THEN "reconnect"
                          ELSE "closeSession")
    /\ UNCHANGED <<driver, handles, builtFor, everBroken, writer, readers,
                   recoveryLock, call, calls, cur, sess, newDrv, freed, faults>>

\* session.Run and the classification of its error (driver.go:70-80)
Run(g) ==
    /\ pc[g] = "run"
    /\ \E m \in RunResults(Top(g), call[g].query) :
         /\ log' = Logged(g, Event("run", Top(g).h, m, Top(g).h \in freed[g]))
         /\ err' = [err EXCEPT ![g] = m]
         /\ pc' = Goto(g, IF m = NoError THEN "hook"
                          ELSE IF IsConnectivityClass(m) THEN "reconnect"
                          ELSE "closeSession")
    /\ UNCHANGED <<driver, handles, builtFor, everBroken, writer, readers,
                   recoveryLock, call, calls, cur, sess, newDrv, freed, faults>>

\* driver.go:81-84 treating the hook's error like a connectivity error
HookErrorReconnects(g) ==
    /\ pc[g] = "hook"
    /\ err' = [err EXCEPT ![g] = executeHook(call[g].hook)]
    /\ log' = Logged(g, Event("hook", Top(g).h, executeHook(call[g].hook), FALSE))
    /\ pc' = Goto(g, IF executeHook(call[g].hook) # NoError THEN "reconnect" ELSE "closeSession")
    /\ UNCHANGED <<driver, handles, builtFor, everBroken, writer, readers,
                   recoveryLock, call, calls, cur, sess, newDrv, freed, faults>>

\* driver.go:81 with the session closed before the hook instead of deferred
HookAfterRelease(g) ==
    /\ pc[g] = "hook"
    /\ err' = [err EXCEPT ![g] = executeHook(call[g].hook)]
    /\ sess' = [sess EXCEPT ![g] = SubSeq(@, 1, Len(@) - 1)]
    /\ log' = [log EXCEPT ![g] =
                 @ \o <<Event("sessionClose", Top(g).h, NoError, FALSE),
                        Event("hook", Top(g).h, executeHook(call[g].hook), FALSE)>>]
    /\ pc' = Goto(g, IF Len(sess[g]) > 1 THEN "closeSession" ELSE "runlock")
    /\ UNCHANGED <<driver, handles, builtFor, everBroken, writer, readers,
                   recoveryLock, call, calls, cur, newDrv, freed, faults>>

\* executeHook(onResults, result) (driver.go:81-85)
Hook(g) ==
    /\ pc[g] = "hook"
    /\ err' = [err EXCEPT ![g] = executeHook(call[g].hook)]
    /\ log' = Logged(g, Event("hook", Top(g).h, executeHook(call[g].hook), FALSE))
    /\ pc' = Goto(g, "closeSession")
    /\ UNCHANGED <<driver, handles, builtFor, everBroken, writer, readers,
                   recoveryLock, call, calls, cur, sess, newDrv, freed, faults>>

\* driver.go:68 deferred in the innermost frame only: one session is closed
\* and the call returns
CloseSessionInnermostOnly(g) ==
    /\ pc[g] = "closeSession"
    /\ sess' = [sess EXCEPT ![g] = SubSeq(@, 1, Len(@) - 1)]
    /\ log' = Logged(g, Event("sessionClose", Top(g).h, NoError, FALSE))
    /\ pc' = Goto(g, "runlock")
    /\ UNCHANGED <<driver, handles, builtFor, everBroken, writer, readers,
                   recoveryLock, call, calls, cur, newDrv, err, freed, faults>>

\* the deferred CloseSession of one frame (driver.go:68, 97-99); the frame
\* returns err to its caller, which is the frame below or ExecuteQuery
CloseSession(g) ==
    /\ pc[g] = "closeSession"
    /\ sess' = [sess EXCEPT ![g] = SubSeq(@, 1, Len(@) - 1)]
    /\ log' = Logged(g, Event("sessionClose", Top(g).h, NoError, FALSE))
    /\ pc' = Goto(g, IF Len(sess[g]) > 1 THEN "closeSession" ELSE "runlock")
    /\ UNCHANGED <<driver, handles, builtFor, everBroken, writer, readers,
                   recoveryLock, call, calls, cur, newDrv, err, freed, faults>>

\* the deferred accessLock.RUnlock() and the return of ExecuteQuery: err[g]
\* at "runlock" is what the caller receives; the call's locals and history end
RUnlock(g) ==
    /\ pc[g] = "runlock"
    /\ readers' = readers \ {g}
    /\ pc' = Goto(g, "idle")
    /\ calls' = [calls EXCEPT ![g] = @ + 1]
    /\ cur' = [cur EXCEPT ![g] = 0]
    /\ call' = [call EXCEPT ![g] = CloseCall]
    /\ err' = [err EXCEPT ![g] = NoError]
    /\ log' = [log EXCEPT ![g] = <<>>]
    /\ freed' = [freed EXCEPT ![g] = {}]
    /\ UNCHANGED <<driver, handles, builtFor, everBroken, writer, recoveryLock,
                   sess, newDrv, faults>>

----------------------------------------------------------------------------
(* reconnect (driver.go:104-119), called from nonblockExecuteQuery line 73 *)

\* driver.go:105 not waiting for the holder of recoveryLock
ReconnectLockUnguarded(g) ==
    /\ pc[g] = "reconnect"
    /\ recoveryLock' = g
    /\ log' = Logged(g, Event("reconnect", Top(g).h, NoError, FALSE))
    /\ pc' = Goto(g, "verify")
    /\ UNCHANGED <<driver, handles, builtFor, everBroken, writer, readers,
                   call, calls, cur, sess, newDrv, err, freed, faults>>

\* recoveryLock.Lock()
ReconnectLock(g) ==
    /\ pc[g] = "reconnect"
    /\ recoveryLock = 0
    /\ recoveryLock' = g
    /\ log' = Logged(g, Event("reconnect", Top(g).h, NoError, FALSE))
    /\ pc' = Goto(g, "verify")
    /\ UNCHANGED <<driver, handles, builtFor, everBroken, writer, readers,
                   call, calls, cur, sess, newDrv, err, freed, faults>>

\* d.driver.VerifyConnectivity(ctx): the double check (driver.go:107-110)
Verify(g) ==
    /\ pc[g] = "verify"
    /\ IF VerifyConnectivity(driver)
       THEN /\ err' = [err EXCEPT ![g] = NoError]
            /\ pc' = Goto(g, "recUnlock")
       ELSE /\ pc' = Goto(g, "construct")
            /\ UNCHANGED err
    /\ log' = Logged(g, Event("verify", driver,
                 IF VerifyConnectivity(driver) THEN NoError ELSE ConnectivityMsg, FALSE))
    /\ UNCHANGED <<driver, handles, builtFor, everBroken, writer, readers,
                   recoveryLock, call, calls, cur, sess, newDrv, freed, faults>>

\* NewDriver(Settings{...}) (driver.go:112-115); the environment can make it
\* fail while it has faults left
Construct(g) ==
    /\ pc[g] = "construct"
    /\ \E ok \in (IF faults > 0 THEN BOOLEAN ELSE {TRUE}) :
         IF ok
         THEN /\ handles' = Append(handles, "open")
              /\ builtFor' = Append(builtFor, Top(g).h)
              /\ newDrv' = [newDrv EXCEPT ![g] = Len(handles) + 1]
              /\ log' = Logged(g, Event("construct", Len(handles) + 1, NoError, FALSE))
              /\ pc' = Goto(g, "closeOld")
              /\ UNCHANGED <<err, faults>>
         ELSE /\ err' = [err EXCEPT ![g] = ConstructMsg]
              /\ faults' = faults - 1
              /\ log' = Logged(g, Event("construct", 0, ConstructMsg, FALSE))
              /\ pc' = Goto(g, "recUnlock")
              /\ UNCHANGED <<handles, builtFor, newDrv>>
    /\ UNCHANGED <<driver, everBroken, writer, readers, recoveryLock,
                   call, calls, cur, sess, freed>>

\* d.nonblockClose(ctx) on the old handle (driver.go:116)
CloseOld(g) ==
    /\ pc[g] = "closeOld"
    /\ handles' = nonblockClose(driver)
    /\ freed' = Freeing(g, driver)
    /\ log' = Logged(g, Event("closeOld", driver, NoError, FALSE))
    /\ pc' = Goto(g, "store")
    /\ UNCHANGED <<driver, builtFor, everBroken, writer, readers, recoveryLock,
                   call, calls, cur, sess, newDrv, err, faults>>

\* d.driver = driver.driver (driver.go:117) and return nil
Store(g) ==
    /\ pc[g] = "store"
    /\ driver' = newDrv[g]
    /\ newDrv' = [newDrv EXCEPT ![g] = 0]
    /\ err' = [err EXCEPT ![g] = NoError]
    /\ log' = Logged(g, Event("store", newDrv[g], NoError, FALSE))
    /\ pc' = Goto(g, "recUnlock")
    /\ UNCHANGED <<handles, builtFor, everBroken, writer, readers, recoveryLock,
                   call, calls, cur, sess, freed, faults>>

\* driver.go:74-76 missing: the error of reconnect is ignored and the query retried
ReconnectUnlockAlwaysRetry(g) ==
    /\ pc[g] = "recUnlock"
    /\ recoveryLock' = 0
    /\ pc' = Goto(g, RetryEntry)
    /\ UNCHANGED <<driver, handles, builtFor, everBroken, writer, readers,
                   call, calls, cur, sess, newDrv, err, log, freed, faults>>

\* the deferred recoveryLock.Unlock(), and back in nonblockExecuteQuery
\* (driver.go:74-77): return the error, or retry
ReconnectUnlock(g) ==
    /\ pc[g] = "recUnlock"
    /\ recoveryLock' = 0
    /\ pc' = Goto(g, IF err[g] # NoError THEN "closeSession" ELSE RetryEntry)
    /\ UNCHANGED <<driver, handles, builtFor, everBroken, writer, readers,
                   call, calls, cur, sess, newDrv, err, log, freed, faults>>

----------------------------------------------------------------------------
(* Close (driver.go:129-133) *)

\* accessLock.Lock(): announce the writer, which blocks new readers ...
Lock(g) ==
    /\ pc[g] = "lock"
    /\ writer = 0
    /\ writer' = g
    /\ pc' = Goto(g, "lockWait")
    /\ UNCHANGED <<driver, handles, builtFor, everBroken, readers, recoveryLock,
                   call, calls, cur, sess, newDrv, err, log, freed, faults>>

\* ... and wait until the active readers have left
LockAcquire(g) ==
    /\ pc[g] = "lockWait"
    /\ ReadersDrained
    /\ pc' = Goto(g, "close")
    /\ UNCHANGED <<driver, handles, builtFor, everBroken, writer, readers,
                   recoveryLock, call, calls, cur, sess, newDrv, err, log, freed, faults>>

\* d.nonblockClose(ctx) (driver.go:132)
CloseDriver(g) ==
    /\ pc[g] = "close"
    /\ handles' = nonblockClose(driver)
    /\ freed' = Freeing(g, driver)
    /\ pc' = Goto(g, "unlock")
    /\ UNCHANGED <<driver, builtFor, everBroken, writer, readers, recoveryLock,
                   call, calls, cur, sess, newDrv, err, log, faults>>

\* the deferred accessLock.Unlock(): the readers that blocked meanwhile get
\* the lock before any later writer
Unlock(g) ==
    /\ pc[g] = "unlock"
    /\ writer' = 0
    /\ readers' = readers \cup {o \in Goroutines : pc[o] = "rwait"}
    /\ pc' = [o \in Goroutines |->
                IF o = g THEN "idle"
                ELSE IF pc[o] = "rwait" THEN "loadDriver" ELSE pc[o]]
    /\ calls' = [calls EXCEPT ![g] = @ + 1]
    /\ UNCHANGED <<driver, handles, builtFor, everBroken, recoveryLock,
                   call, cur, sess, newDrv, err, log, freed, faults>>

----------------------------------------------------------------------------
(* The environment *)

\* the database becomes unreachable through an open handle: Run on it returns
\* a ConnectivityError (driver.go:70-72), VerifyConnectivity fails (driver.go:107)
BreakConnection ==
    /\ faults > 0
    /\ \E h \in DOMAIN handles :
         /\ handles[h] = "open"
         /\ handles' = [handles EXCEPT ![h] = "broken"]
         /\ everBroken' = everBroken \cup {h}
    /\ faults' = faults - 1
    /\ UNCHANGED <<driver, builtFor, writer, readers, recoveryLock, pc, call,
                   calls, cur, sess, newDrv, err, log, freed>>

----------------------------------------------------------------------------
(* Specifications *)

GoroutineStep(g) ==
    \/ RLock(g)
    \/ LoadDriver(g)
    \/ NewSession(g)
    \/ Run(g)
    \/ Hook(g)
    \/ CloseSession(g)
    \/ RUnlock(g)
    \/ ReconnectLock(g)
    \/ Verify(g)
    \/ Construct(g)
    \/ CloseOld(g)
    \/ Store(g)
    \/ ReconnectUnlock(g)
    \/ Lock(g)
    \/ LockAcquire(g)
    \/ CloseDriver(g)
    \/ Unlock(g)

Next ==
    \/ \E g \in Goroutines : StartCall(g)
    \/ \E g \in Goroutines : GoroutineStep(g)
    \/ BreakConnection

\* any callers, any calls, a database that can fail
Spec == Init /\ [][Next]_vars

\* the test's database: reachable, and SetupTest and line 49 of
\* TestMultithreadedQueryRequestsWithConnectionRecovery have run
InitStress ==
    /\ driver = 1
    /\ handles = <<"closed">>
    /\ builtFor = <<0>>
    /\ everBroken = {}
    /\ writer = 0
    /\ readers = {}
    /\ recoveryLock = 0
    /\ pc = [g \in Goroutines |-> "idle"]
    /\ call = [g \in Goroutines |-> CloseCall]
    /\ calls = [g \in Goroutines |-> 0]
    /\ cur = [g \in Goroutines |-> 0]
    /\ sess = [g \in Goroutines |-> <<>>]
    /\ newDrv = [g \in Goroutines |-> 0]
    /\ err = [g \in Goroutines |-> NoError]
    /\ log = [g \in Goroutines |-> <<>>]
    /\ freed = [g \in Goroutines |-> {}]
    /\ faults = 0

\* one goroutine of the test: Close, then executeSimpleQuery
TestGoroutine(g) ==
    /\ calls[g] < 2
    /\ Begin(g, IF calls[g] = 0 THEN CloseCall ELSE SimpleQuery)

NextStress ==
    \/ \E g \in Goroutines : TestGoroutine(g)
    \/ \E g \in Goroutines : GoroutineStep(g)

StressSpec ==
    /\ InitStress
    /\ [][NextStress]_vars
    /\ \A g \in Goroutines : WF_vars(TestGoroutine(g) \/ GoroutineStep(g))

----------------------------------------------------------------------------
(* Positions and history, for the properties *)

InsideExecuteQuery(g) ==
    pc[g] \in {"loadDriver", "newSession", "run", "hook", "closeSession", "runlock",
               "reconnect", "verify", "construct", "closeOld", "store", "recUnlock"}
InsideClose(g) == pc[g] \in {"close", "unlock"}
InsideReconnect(g) == pc[g] \in {"verify", "construct", "closeOld", "store", "recUnlock"}

\* g is about to return from ExecuteQuery with err[g]
Returning(g) == pc[g] = "runlock"

Events(g, e) == SelectSeq(log[g], LAMBDA x : x.ev = e)
Count(g, e) == Len(Events(g, e))
Runs(g) == Events(g, "run")

\* waiting for a lock that is not available
Blocked(g) ==
    \/ pc[g] = "rwait"
    \/ pc[g] = "lock" /\ writer # 0
    \/ pc[g] = "lockWait" /\ readers # {}
    \/ pc[g] = "reconnect" /\ recoveryLock # 0

\* g has returned from both calls of the test's goroutine body
Finished(g) == pc[g] = "idle" /\ calls[g] = 2
AllFinished == \A g \in Goroutines : Finished(g)

----------------------------------------------------------------------------
(* C1: Close and ExecuteQuery exclude each other: while a goroutine is in  *)
(* Close's critical section (between Lock and Unlock of accessLock) no     *)
(* goroutine is inside ExecuteQuery (between RLock and RUnlock, reconnect  *)
(* and retries included) and no other goroutine is in Close's critical     *)
(* section; goroutines inside ExecuteQuery are exactly the RLock holders.  *)
CloseExcludesExecuteQuery ==
    /\ \A g \in Goroutines : InsideClose(g) =>
          \A o \in Goroutines : ~InsideExecuteQuery(o) /\ (o # g => ~InsideClose(o))
    /\ \A g \in Goroutines : InsideExecuteQuery(g) => g \in readers

\* an ExecuteQuery blocked in RLock while a Close is in its critical section
CloseExcludesExecuteQueryWitness ==
    \E g, o \in Goroutines : InsideClose(g) /\ pc[o] = "rwait"

(* C2: the stress scenario is deadlock free: no reachable state has every  *)
(* unfinished goroutine blocked on accessLock or recoveryLock, and under   *)
(* fair scheduling every goroutine eventually returns from Close and       *)
(* ExecuteQuery.                                                           *)
StressTerminates ==
    /\ [](AllFinished \/ \E g \in Goroutines : ~Finished(g) /\ ~Blocked(g))
    /\ <>AllFinished

\* all goroutines are done and the closed handle was replaced on the way
StressTerminatesWitness == AllFinished /\ driver # 1

(* C3: in the stress scenario every ExecuteQuery returns no error.         *)
StressReturnsNoError ==
    \A g \in Goroutines : Returning(g) => err[g] = NoError

\* an ExecuteQuery whose Run hit the closed handle is returning
StressReturnsNoErrorWitness ==
    \E g \in Goroutines :
        /\ Returning(g)
        /\ \E i \in DOMAIN log[g] : log[g][i].ev = "run" /\ log[g][i].msg = ClosedDriverMsg

OneReconnectOnConnectivityError ==
    \A g \in Goroutines :
        ( /\ Returning(g)
          /\ call[g].hook = "ok"
          /\ Count(g, "run") >= 1
          /\ Runs(g)[1].msg = ConnectivityMsg
          /\ \A i \in 2..Count(g, "run") : Runs(g)[i].msg = NoError
          /\ \A i \in DOMAIN log[g] : log[g][i].ev = "construct" => log[g][i].msg = NoError )
        => /\ Count(g, "run") = 2
           /\ Count(g, "reconnect") = 1
           /\ err[g] = NoError

OneReconnectOnConnectivityErrorWitness ==
    \E g \in Goroutines :
        /\ Returning(g)
        /\ call[g].hook = "ok"
        /\ Count(g, "run") = 2
        /\ Runs(g)[1].msg = ConnectivityMsg
        /\ Runs(g)[2].msg = NoError

HookPanicContained ==
    \A g \in Goroutines :
        /\ (Returning(g) /\ call[g].hook = "panic" /\ Count(g, "hook") = 1) =>
              /\ HasPrefix(err[g], <<"[neo4j onResults] recovered from panic: ">>)
              /\ \E i \in DOMAIN err[g] : err[g][i] = PanicValue
              /\ sess[g] = <<>>
        /\ pc[g] = "idle" => (g \notin readers /\ recoveryLock # g /\ sess[g] = <<>>)

HookPanicContainedWitness ==
    \E g \in Goroutines :
        Returning(g) /\ call[g].hook = "panic" /\ Count(g, "hook") = 1

(* C8: a Run error that is neither the closed-handle error nor a           *)
(* connectivity error is returned as it is and at once: after that Run the *)
(* call only closes its sessions; it calls no reconnect, builds, closes    *)
(* and stores no handle, runs nothing again and invokes no hook.           *)
QueryErrorReturnedAtOnce ==
    \A g \in Goroutines : \A i \in DOMAIN log[g] :
        (log[g][i].ev = "run" /\ log[g][i].msg \in {QueryMsg, PoolClosedMsg}) =>
            /\ err[g] = log[g][i].msg
            /\ pc[g] \in {"closeSession", "runlock"}
            /\ \A j \in (i + 1)..Len(log[g]) : log[g][j].ev = "sessionClose"

QueryErrorReturnedAtOnceWitness ==
    \E g \in Goroutines : Returning(g) /\ err[g] = QueryMsg

(* C9: no ExecuteQuery opens a session on, or runs a query through, a      *)
(* handle that another goroutine closed while the call held RLock.         *)
NoUseOfFreedHandle ==
    \A g \in Goroutines : \A i \in DOMAIN log[g] :
        log[g][i].ev \in {"session", "run"} => ~log[g][i].freed

(* C10: the handle is replaced under exclusive access: no goroutine reads  *)
(* d.driver to open a session while another goroutine is between closing   *)
(* the old handle and storing the new one in reconnect.                    *)
HandleSwapExcludesReads ==
    [][\A g \in Goroutines :
          LoadDriver(g) => \A o \in Goroutines : pc[o] # "store"]_vars

(* C11: every session a call opens is closed exactly once before the call  *)
(* returns, on every exit path: at any time the sessions g has open are    *)
(* those it opened and has not closed, and when ExecuteQuery returns it    *)
(* has closed each session it opened, innermost frame first, and none is   *)
(* left open.                                                              *)
SessionsClosedBeforeReturn ==
    \A g \in Goroutines :
        /\ Count(g, "sessionClose") <= Count(g, "session")
        /\ Len(sess[g]) = Count(g, "session") - Count(g, "sessionClose")
        /\ Returning(g) =>
              /\ sess[g] = <<>>
              /\ Count(g, "session") >= 1
              /\ \A k \in 1..Count(g, "session") :
                    Events(g, "sessionClose")[k].h =
                        Events(g, "session")[Count(g, "session") + 1 - k].h
        /\ pc[g] = "idle" => sess[g] = <<>>

\* a call that retried, so opened two sessions, is returning an error
SessionsClosedBeforeReturnWitness ==
    \E g \in Goroutines :
        Returning(g) /\ Count(g, "session") >= 2 /\ err[g] # NoError

(* C12 as stated: on a successful Run the session is released first and    *)
(* the hook is invoked afterwards: a close of a session precedes every     *)
(* invocation of the hook.                                                 *)
SessionReleasedBeforeHook ==
    \A g \in Goroutines : \A i \in DOMAIN log[g] :
        log[g][i].ev = "hook" =>
            \E j \in 1..(i - 1) :
                log[g][j].ev = "sessionClose" /\ log[g][j].h = log[g][i].h

(* C12 as amended: on a successful Run the hook is invoked first, while    *)
(* every session of the call is still open; the session that produced the  *)
(* result is closed right after the hook returns (the deferred close).     *)
HookBeforeSessionRelease ==
    \A g \in Goroutines :
        /\ pc[g] = "hook" => sess[g] # <<>>
        /\ \A i \in DOMAIN log[g] :
              log[g][i].ev = "hook" =>
                  /\ \A j \in 1..(i - 1) : log[g][j].ev # "sessionClose"
                  /\ log[g][i - 1].ev = "run" /\ log[g][i - 1].h = log[g][i].h
                  /\ i < Len(log[g]) =>
                        (log[g][i + 1].ev = "sessionClose" /\ log[g][i + 1].h = log[g][i].h)

\* the hook has run and the session of its result has been closed after it
HookBeforeSessionReleaseWitness ==
    \E g \in Goroutines : \E i \in DOMAIN log[g] :
        log[g][i].ev = "hook" /\ i < Len(log[g]) /\ log[g][i + 1].ev = "sessionClose"

(* C13: double-checked recovery leaves the state unchanged: when reconnect *)
(* holds recoveryLock and the current handle passes the connectivity       *)
(* check, reconnect returns nil, builds no handle, closes no handle and    *)
(* leaves d.driver as it was, up to and including its unlock.              *)
DoubleCheckLeavesState ==
    [][\A g \in Goroutines :
          /\ (pc[g] = "verify" /\ pc'[g] # "verify" /\ handles[driver] = "open") =>
                /\ pc'[g] = "recUnlock"
                /\ err'[g] = NoError
                /\ UNCHANGED <<driver, handles, builtFor, newDrv>>
          /\ (pc[g] = "recUnlock" /\ pc'[g] # "recUnlock") =>
                /\ recoveryLock' = 0
                /\ UNCHANGED <<driver, handles, builtFor, newDrv>>]_vars

\* reconnect's check has just passed on the current handle
DoubleCheckLeavesStateWitness ==
    \E g \in Goroutines :
        /\ pc[g] = "recUnlock"
        /\ log[g][Len(log[g])].ev = "verify"
        /\ log[g][Len(log[g])].msg = NoError
        /\ handles[driver] = "open"

(* C14: when NewDriver fails inside reconnect the old handle stays in      *)
(* place: that step closes nothing and does not change d.driver,           *)
(* recoveryLock is released, and ExecuteQuery returns the construction     *)
(* error: after the failure the call only closes its sessions, it does not *)
(* run the query again.                                                    *)
ConstructionFailureKeepsOldHandle ==
    /\ [](\A g \in Goroutines : \A i \in DOMAIN log[g] :
            (log[g][i].ev = "construct" /\ log[g][i].msg # NoError) =>
                /\ err[g] = log[g][i].msg
                /\ pc[g] \in {"recUnlock", "closeSession", "runlock"}
                /\ pc[g] = "recUnlock" => driver = log[g][i - 1].h
                /\ pc[g] # "recUnlock" => recoveryLock # g
                /\ \A j \in (i + 1)..Len(log[g]) : log[g][j].ev = "sessionClose")
    /\ [][\A g \in Goroutines :
            (pc[g] = "construct" /\ pc'[g] = "recUnlock") =>
                UNCHANGED <<driver, handles, builtFor, newDrv>>]_vars

\* ExecuteQuery is returning the construction error
ConstructionFailureKeepsOldHandleWitness ==
    \E g \in Goroutines :
        /\ Returning(g)
        /\ err[g] = ConstructMsg
        /\ handles[driver] # "open"

(* C15: at most one goroutine at a time is between acquiring and releasing *)
(* recoveryLock in reconnect, that goroutine is the lock's holder, and two *)
(* replacement handles are never being built at the same time.             *)
OneReconnectAtATime ==
    /\ Cardinality({g \in Goroutines : InsideReconnect(g)}) <= 1
    /\ \A g \in Goroutines : InsideReconnect(g) <=> recoveryLock = g
    /\ \A g, o \in Goroutines : (newDrv[g] # 0 /\ newDrv[o] # 0) => g = o

\* one goroutine is replacing the handle while another waits for recoveryLock
OneReconnectAtATimeWitness ==
    \E g, o \in Goroutines :
        pc[g] \in {"closeOld", "store"} /\ newDrv[g] # 0 /\ pc[o] = "reconnect"

(* C16 as stated: Close is not ordered against reconnect: since Close does *)
(* not take recoveryLock, a Close waiting in accessLock.Lock while another *)
(* goroutine is inside reconnect is not held back by it and can go on to   *)
(* close the handle.                                                       *)
CloseNotHeldBackByReconnect ==
    \A g, o \in Goroutines :
        (pc[g] = "lockWait" /\ InsideReconnect(o)) => readers = {}

(* C16 as amended: Close cannot race reconnect: reconnect runs only inside *)
(* ExecuteQuery, under the shared accessLock, and Close closes the handle  *)
(* under the exclusive accessLock; so when Close is at its handle-close    *)
(* step no goroutine is inside reconnect, recoveryLock is free and no      *)
(* replacement handle is waiting to be stored.                             *)
CloseNeverOverlapsReconnect ==
    /\ \A o \in Goroutines : InsideReconnect(o) => o \in readers
    /\ \A g \in Goroutines : InsideClose(g) =>
          /\ recoveryLock = 0
          /\ \A o \in Goroutines : ~InsideReconnect(o) /\ pc[o] # "reconnect" /\ newDrv[o] = 0

\* a Close is waiting for accessLock while another goroutine replaces the handle
CloseNeverOverlapsReconnectWitness ==
    \E g, o \in Goroutines :
        pc[g] = "lockWait" /\ pc[o] \in {"closeOld", "store"}

(* C17: the reconnect-retry recursion has no cap: however many rounds a    *)
(* call has made, a Run that returns the closed-handle or a connectivity   *)
(* error is followed by reconnect, and a reconnect that stored a handle is *)
(* followed by another attempt; the call returns only after a Run that     *)
(* returned something else or after a reconnect that failed to build a     *)
(* handle.  So while every Run fails that way and every reconnect returns  *)
(* nil, the call does not return.                                          *)
NoRetryCap ==
    \A g \in Goroutines :
        /\ Returning(g) =>
              \/ Runs(g)[Count(g, "run")].msg \notin {ClosedDriverMsg, ConnectivityMsg}
              \/ \E i \in DOMAIN log[g] :
                    log[g][i].ev = "construct" /\ log[g][i].msg # NoError
        /\ \A i \in 1..(Len(log[g]) - 1) :
              /\ (log[g][i].ev = "run" /\ log[g][i].msg \in {ClosedDriverMsg, ConnectivityMsg})
                    => log[g][i + 1].ev = "reconnect"
              /\ log[g][i].ev = "store" => log[g][i + 1].ev = "session"

\* a call in its third attempt: as many retry rounds as the environment's
\* faults (a closed handle, then each lost connection) can cause
NoRetryCapWitness ==
    \E g \in Goroutines :
        /\ Count(g, "run") >= MaxFaults + 2
        /\ Count(g, "reconnect") >= MaxFaults + 1

(* C18: an ExecuteQuery call takes the shared accessLock once, before any  *)
(* of its work, and holds it through all its reconnect and retry rounds:   *)
(* a call that has opened a session is never at RLock again, so a pending  *)
(* Close cannot block its retry, and Close closes the handle only when no  *)
(* call is between its first attempt and its return.                       *)
SharedLockHeldAcrossRetries ==
    /\ [](\A g \in Goroutines :
            /\ pc[g] \in {"rlock", "rwait"} => (log[g] = <<>> /\ g \notin readers)
            /\ log[g] # <<>> => (g \in readers /\ InsideExecuteQuery(g)))
    /\ [][\A o \in Goroutines :
            (pc[o] = "close" /\ pc'[o] = "unlock") =>
                \A g \in Goroutines : log[g] = <<>>]_vars

\* a call starts its retry while a Close is waiting for the exclusive lock
SharedLockHeldAcrossRetriesWitness ==
    \E g, o \in Goroutines :
        /\ pc[g] = "loadDriver"
        /\ Count(g, "reconnect") >= 1
        /\ pc[o] = "lockWait"

(* C19: the hook is invoked at most once per call and only on the result   *)
(* of a Run that succeeded; what the hook returns, an error or a recovered *)
(* panic included, is what ExecuteQuery returns: after the hook the call   *)
(* only closes its sessions, with no reconnect, no handle replacement and  *)
(* no retry.                                                               *)
HookOnceAndFinal ==
    \A g \in Goroutines :
        /\ Count(g, "hook") <= 1
        /\ \A i \in DOMAIN log[g] :
              log[g][i].ev = "hook" =>
                  /\ log[g][i - 1].ev = "run"
                  /\ log[g][i - 1].msg = NoError
                  /\ err[g] = log[g][i].msg
                  /\ call[g].hook = "err" => err[g] = NoRecordsMsg
                  /\ call[g].hook = "panic" => err[g] # NoError
                  /\ call[g].hook = "ok" => err[g] = NoError
                  /\ pc[g] \in {"closeSession", "runlock"}
                  /\ \A j \in (i + 1)..Len(log[g]) : log[g][j].ev = "sessionClose"

\* ExecuteQuery is returning the hook's own error
HookOnceAndFinalWitness ==
    \E g \in Goroutines :
        Returning(g) /\ Count(g, "hook") = 1 /\ err[g] = NoRecordsMsg

(* C20: no handle is leaked open: every handle ever built, other than the  *)
(* one d.driver references and a replacement built in a reconnect in       *)
(* progress and not yet stored, is closed; and reconnect has closed the    *)
(* old handle when it stores the new one.                                  *)
NoHandleLeftOpen ==
    /\ \A h \in DOMAIN handles :
          (h # driver /\ \A g \in Goroutines : newDrv[g] # h) => handles[h] = "closed"
    /\ \A g \in Goroutines : pc[g] = "store" => handles[driver] = "closed"

\* a reconnect has replaced a handle that had lost its connection
NoHandleLeftOpenWitness ==
    /\ Len(handles) >= 2
    /\ driver # 1
    /\ 1 \in everBroken
    /\ \A g \in Goroutines : newDrv[g] = 0

====
